---- MODULE Spec2Model ----
(***************************************************************************)
(* Model of agent.py: the Worker poll loop (run / check_cluster_status /   *)
(* check_power / check_nodes / check_drives / notify) of the SNMP agent.   *)
(*                                                                         *)
(* One loop iteration of Worker.run is a "tick".  The worker's position is *)
(* pc; an uncaught exception ends the thread (pc = "dead").  `log` holds   *)
(* what the handler that ran last did, `tick` names the handlers that have *)
(* run in the current tick, and wasUnhealthy / wasAlert remember, per      *)
(* entity key, the last observation and the last event before that handler.*)
(*                                                                         *)
(* Spec takes the counter update of a tick as one step of the worker.      *)
(* SpecCounter takes it apart into the locked read and the locked write of *)
(* the Mib object and adds the serving loop, which reads the counter under *)
(* the same lock; it runs the configuration without IPMI.                  *)
(***************************************************************************)
EXTENDS Integers, Sequences, FiniteSets, TLC

\* ---------------------------------------------------------------- bounds
\* Number of loop iterations of Worker.run that are explored.
MaxTicks == 3

\* The n-th sendTrap / send_email of one handler call may be the failing one,
\* n in 0..MaxFailAt (0: none fails).
MaxFailAt == 1

\* ------------------------------------------------------------ input sets
\* Configurations: the channel switches, the IPMI switch and the
\* configured ipmi_servers list (which may name one endpoint twice).
Cfg(snmp, email, ipmi, servers) ==
  [snmp |-> snmp, email |-> email, ipmi |-> ipmi, servers |-> servers]

Configs ==
  { Cfg(TRUE,  TRUE,  TRUE,  <<"ipmi-a", "ipmi-b">>),
    Cfg(TRUE,  TRUE,  TRUE,  <<"ipmi-a", "ipmi-a">>),
    Cfg(FALSE, TRUE,  TRUE,  <<"ipmi-a", "ipmi-b">>),
    Cfg(TRUE,  FALSE, FALSE, <<"ipmi-a", "ipmi-b">>) }

\* Labels that the per-node dictionaries are created with.
KnownLabels == {"PS1", "PS2"}

\* What client.get_power_state(ipmi_server) can hand back: it raises, it
\* returns None, or it returns a dictionary with (some of) the keys
\* 'FAIL' and 'GOOD', each a list of supply labels.
PowerDict(f, g) == [kind |-> "dict", keys |-> {"FAIL", "GOOD"}, FAIL |-> f, GOOD |-> g]

PowerResults ==
  { [kind |-> "raise", keys |-> {}, FAIL |-> <<>>, GOOD |-> <<>>],
    [kind |-> "none",  keys |-> {}, FAIL |-> <<>>, GOOD |-> <<>>],
    [kind |-> "dict",  keys |-> {"GOOD"}, FAIL |-> <<>>, GOOD |-> <<"PS1", "PS2">>],
    PowerDict(<<>>, <<"PS1", "PS2">>),
    PowerDict(<<"PS1">>, <<"PS2">>),
    PowerDict(<<"PS2">>, <<"PS1">>),
    PowerDict(<<"PS1", "PS2">>, <<>>),
    PowerDict(<<"PS1">>, <<"PS1", "PS2">>),
    PowerDict(<<"PS3">>, <<"PS1", "PS2">>) }

\* client.offline_nodes / client.dead_drives after a query.
OfflineNodeSets == { {}, {"A"}, {"A", "B"} }

DeadDriveSets == { {}, {"d1"}, {"d1", "d2"} }

\* ------------------------------------------------------------------ state
VARIABLES
  snmp_enabled,                   \* cfg.snmp.enabled
  email_enabled,                  \* cfg.email.enabled
  ipmi_enabled,                   \* cfg.clusters[0].ipmi.enabled
  ipmi_servers,                   \* cfg.clusters[0].ipmi.ipmi_servers
  credentials,                    \* client.credentials is not None
  notified_offline,
  notified_dead_drives,
  notified_power_supply_failure,  \* [node_id -> [label -> BOOLEAN]]
  test_count,                     \* Mib._test_count
  pc,                             \* where the worker thread is
  srv,                            \* position in ipmi_servers of the for loop
  log,                            \* what the handler that ran last did
  tick,                           \* handlers run so far in the current tick
  wasUnhealthy,                   \* per key: last observation was unhealthy
  wasAlert,                       \* per key: last event was an ALERT
  lock,                           \* Mib._lock: the thread that holds it
  value,                          \* worker: what mib.getTestCount() returned
  spc,                            \* where the serving loop (main thread) is
  seen,                           \* serving loop: the testCount it served last
  started,                        \* ticks begun: iterations of run past their sleep
                                  \* that have entered the counter update
  cycles                          \* calls of check_cluster_status that returned

vars == << snmp_enabled, email_enabled, ipmi_enabled, ipmi_servers, credentials,
           notified_offline, notified_dead_drives, notified_power_supply_failure,
           test_count, pc, srv, log, tick, wasUnhealthy, wasAlert,
           lock, value, spc, seen, started, cycles >>

cfgVars == << snmp_enabled, email_enabled, ipmi_enabled, ipmi_servers >>

\* The lock of the Mib object and what the two threads hold of the counter.
mibVars == << lock, value, spc, seen >>

\* ------------------------------------------------------------ entity keys
ConnKey == << "conn", -1, "" >>

NodesKey == << "nodes", -1, "" >>

DrivesKey == << "drives", -1, "" >>

PowerKey(node_id, label) == << "power", node_id, label >>

NodeIds == 0 .. 1

\* Connectivity and the node aggregate are tracked by the one flag
\* notified_offline; OfflineKey stands for that flag's history.
OfflineKey == << "offline", -1, "" >>

Keys == { ConnKey, NodesKey, DrivesKey, OfflineKey }
          \cup { PowerKey(n, l) : n \in NodeIds, l \in KnownLabels }

KeyMatch(entry_key, k) ==
  entry_key = k \/ (k = OfflineKey /\ entry_key \in {ConnKey, NodesKey})

\* The flag a key is tracked by.
FlagKey(k) == IF k \in {ConnKey, NodesKey} THEN OfflineKey ELSE k

\* ------------------------------------------------------------ log entries
\* op = "call"       a client call; what = its name, n = endpoint position
\* op = "eval"       a condition was tested against its flag;
\*                   what = "unhealthy"/"healthy", n = 1 iff the flag was set
\* op = "notify"     notify() was entered (logger.warn); what = ALERT/CLEAR,
\*                   n = number of members named in the message
\* op = "sendTrap"   what = trap name, n = 1 sent / 0 raised
\* op = "send_email" what = subject, n = 1 sent / 0 failed (caught)
\* op = "returned"   what = the value get_power_state returned
\* op = "warn"       an except TypeError block logged its warning
\* op = "raise"      what = an exception that no handler caught
Entry(op, key, what, n) == [op |-> op, key |-> key, what |-> what, n |-> n]

B2N(b) == IF b THEN 1 ELSE 0

\* The worker's local view while one handler runs: the flags, the log, the
\* pending exception ("" when none), and how many sends it has made.
Frame == [ off |-> notified_offline, dd |-> notified_dead_drives,
           ps |-> notified_power_supply_failure, log |-> <<>>,
           exc |-> "", nt |-> 0, nm |-> 0 ]

Logged(s, e) == [s EXCEPT !.log = Append(@, e)]

\* An exception nothing catches: it is noted and carried out of the handler.
Raised(s, key, exception) ==
  [Logged(s, Entry("raise", key, exception, 0)) EXCEPT !.exc = exception]

\* ----------------------------------------------------------------- notify
\* SNMPAgent.sendTrap: no handler around sendNotification; the tf-th call
\* of this handler fails and the error propagates.
sendTrap(s, key, trap_name, tf) ==
  LET k  == s.nt + 1
      ok == (k # tf)
      s1 == [Logged(s, Entry("sendTrap", key, trap_name, B2N(ok))) EXCEPT !.nt = k]
  IN IF ok THEN s1 ELSE [s1 EXCEPT !.exc = "TrapError"]

\* Worker.send_email: the whole body is inside try/except Exception.
send_email(s, key, subject, mf) ==
  LET k  == s.nm + 1
      ok == (k # mf)
  IN [Logged(s, Entry("send_email", key, subject, B2N(ok))) EXCEPT !.nm = k]

\* Worker.notify
notify(s, key, kind, n, subject, trap_name, tf, mf) ==
  LET s0 == Logged(s, Entry("notify", key, kind, n))
      s1 == IF snmp_enabled THEN sendTrap(s0, key, trap_name, tf) ELSE s0
      s2 == IF s1.exc # "" THEN s1
            ELSE IF email_enabled THEN send_email(s1, key, subject, mf) ELSE s1
  IN s2

\* The alert body of an aggregate: "There are currently <count> ... offline:"
\* followed by one clause for each member of the collection just fetched.
msg(members) == [count |-> Cardinality(members), members |-> members]

\* ------------------------------------------------------------ check_nodes
\* check_nodes without `self.notified_offline = True` after the alert.
check_nodes_body_flag_not_set(s, offline_nodes, tf, mf) ==
  LET s0 == Logged(Logged(s, Entry("call", NodesKey, "get_cluster_state", 0)),
                  Entry("returned", NodesKey, offline_nodes, 0))
      n  == Cardinality(offline_nodes)
      s1 == Logged(s0, Entry("eval", NodesKey,
                             IF n > 0 THEN "unhealthy" ELSE "healthy", B2N(s0.off)))
  IN IF n > 0
     THEN IF s1.off = FALSE
          THEN notify(s1, NodesKey, "ALERT", msg(offline_nodes), "Qumulo Nodes Offline",
                      "nodeDownTrap", tf, mf)
          ELSE s1
     ELSE IF s1.off = TRUE
          THEN notify([s1 EXCEPT !.off = FALSE], NodesKey, "CLEAR", 0,
                      "Qumulo Nodes Back Online", "nodesClearTrap", tf, mf)
          ELSE s1

\* Worker.check_nodes
check_nodes_body(s, offline_nodes, tf, mf) ==
  LET s0 == Logged(Logged(s, Entry("call", NodesKey, "get_cluster_state", 0)),
                  Entry("returned", NodesKey, offline_nodes, 0))
      n  == Cardinality(offline_nodes)
      s1 == Logged(s0, Entry("eval", NodesKey,
                             IF n > 0 THEN "unhealthy" ELSE "healthy", B2N(s0.off)))
  IN IF n > 0
     THEN IF s1.off = FALSE
          THEN LET s2 == notify(s1, NodesKey, "ALERT", msg(offline_nodes), "Qumulo Nodes Offline",
                                "nodeDownTrap", tf, mf)
               IN IF s2.exc # "" THEN s2 ELSE [s2 EXCEPT !.off = TRUE]
          ELSE s1
     ELSE IF s1.off = TRUE
          THEN notify([s1 EXCEPT !.off = FALSE], NodesKey, "CLEAR", 0,
                      "Qumulo Nodes Back Online", "nodesClearTrap", tf, mf)
          ELSE s1

\* ----------------------------------------------------------- check_drives
\* check_drives without the test of notified_dead_drives: it alerts on
\* every tick that finds dead drives.
check_drives_body_level_triggered(s, dead_drives, tf, mf) ==
  LET s0 == Logged(Logged(s, Entry("call", DrivesKey, "get_drive_states", 0)),
                  Entry("returned", DrivesKey, dead_drives, 0))
      n  == Cardinality(dead_drives)
      s1 == Logged(s0, Entry("eval", DrivesKey,
                             IF n > 0 THEN "unhealthy" ELSE "healthy", B2N(s0.dd)))
  IN IF n > 0
     THEN LET s2 == notify(s1, DrivesKey, "ALERT", msg(dead_drives),
                           "Qumulo Drives Offline", "driveFailureTrap", tf, mf)
          IN IF s2.exc # "" THEN s2 ELSE [s2 EXCEPT !.dd = TRUE]
     ELSE IF s1.dd = TRUE
          THEN notify([s1 EXCEPT !.dd = FALSE], DrivesKey, "CLEAR", 0,
                      "Qumulo Drives Back Online", "nodesClearTrap", tf, mf)
          ELSE s1

\* Worker.check_drives
check_drives_body(s, dead_drives, tf, mf) ==
  LET s0 == Logged(Logged(s, Entry("call", DrivesKey, "get_drive_states", 0)),
                  Entry("returned", DrivesKey, dead_drives, 0))
      n  == Cardinality(dead_drives)
      s1 == Logged(s0, Entry("eval", DrivesKey,
                             IF n > 0 THEN "unhealthy" ELSE "healthy", B2N(s0.dd)))
  IN IF n > 0
     THEN IF s1.dd = FALSE
          THEN LET s2 == notify(s1, DrivesKey, "ALERT", msg(dead_drives), "Qumulo Drives Offline",
                                "driveFailureTrap", tf, mf)
               IN IF s2.exc # "" THEN s2 ELSE [s2 EXCEPT !.dd = TRUE]
          ELSE s1
     ELSE IF s1.dd = TRUE
          THEN notify([s1 EXCEPT !.dd = FALSE], DrivesKey, "CLEAR", 0,
                      "Qumulo Drives Back Online", "nodesClearTrap", tf, mf)
          ELSE s1

\* ------------------------------------------------------------ check_power
\* list(ipmi_servers).index(ipmi_server): the first position holding the value.
IndexOf(servers, ipmi_server) ==
  (CHOOSE i \in 1 .. Len(servers) :
      /\ servers[i] = ipmi_server
      /\ \A j \in 1 .. (i - 1) : servers[j] # ipmi_server) - 1

\* for PS in power_states['FAIL']: ...   (lines 245-258)
RECURSIVE fail_loop(_, _, _, _, _)
fail_loop(s, node_id, labels, tf, mf) ==
  IF labels = <<>> \/ s.exc # "" THEN s
  ELSE LET PS == Head(labels)
       IN IF PS \notin DOMAIN s.ps[node_id]
          THEN Raised(s, PowerKey(node_id, ""), "KeyError")
          ELSE LET key == PowerKey(node_id, PS)
                   s1  == Logged(s, Entry("eval", key, "unhealthy",
                                          B2N(s.ps[node_id][PS])))
                   s2  == IF ~ s1.ps[node_id][PS]
                          THEN LET s3 == notify(s1, key, "ALERT", 1,
                                                "[ALERT] Qumulo Power Supply Failure",
                                                "powerSupplyFailureTrap", tf, mf)
                               IN IF s3.exc # "" THEN s3
                                  ELSE [s3 EXCEPT !.ps[node_id][PS] = TRUE]
                          ELSE s1
               IN fail_loop(s2, node_id, Tail(labels), tf, mf)

\* for PS in power_states['GOOD']: ...   (lines 265-269)
RECURSIVE good_loop(_, _, _, _, _)
good_loop(s, node_id, labels, tf, mf) ==
  IF labels = <<>> \/ s.exc # "" THEN s
  ELSE LET PS == Head(labels)
       IN IF PS \notin DOMAIN s.ps[node_id]
          THEN Raised(s, PowerKey(node_id, ""), "KeyError")
          ELSE LET key == PowerKey(node_id, PS)
                   s1  == Logged(s, Entry("eval", key, "healthy",
                                          B2N(s.ps[node_id][PS])))
                   s2  == IF s1.ps[node_id][PS]
                          THEN LET s3 == notify(s1, key, "CLEAR", 1,
                                                "Qumulo Power Supply Normal",
                                                "nodesClearTrap", tf, mf)
                               IN IF s3.exc # "" THEN s3
                                  ELSE [s3 EXCEPT !.ps[node_id][PS] = FALSE]
                          ELSE s1
               IN good_loop(s2, node_id, Tail(labels), tf, mf)

\* A try block whose TypeError handler also forgets the node's alerts, as
\* if a query without data meant that every supply is good.
power_try_none_clears(s, node_id, power_states, which, tf, mf) ==
  IF power_states.kind = "none"
  THEN [Logged(s, Entry("warn", PowerKey(node_id, ""), "TypeError", 0))
          EXCEPT !.ps[node_id] = [l \in KnownLabels |-> FALSE]]
  ELSE IF which \notin power_states.keys
  THEN Raised(s, PowerKey(node_id, ""), "KeyError")
  ELSE IF which = "FAIL" THEN fail_loop(s, node_id, power_states.FAIL, tf, mf)
  ELSE good_loop(s, node_id, power_states.GOOD, tf, mf)

\* One try block of check_power: subscripting None raises TypeError, which
\* is the one exception the block catches; a missing dictionary key or an
\* error raised inside the loop leaves the block.
power_try(s, node_id, power_states, which, tf, mf) ==
  IF power_states.kind = "none"
  THEN Logged(s, Entry("warn", PowerKey(node_id, ""), "TypeError", 0))
  ELSE IF which \notin power_states.keys
  THEN Raised(s, PowerKey(node_id, ""), "KeyError")
  ELSE IF which = "FAIL" THEN fail_loop(s, node_id, power_states.FAIL, tf, mf)
  ELSE good_loop(s, node_id, power_states.GOOD, tf, mf)

\* Worker.check_power(ipmi_server, node_id)
check_power_body(s, node_id, power_states, tf, mf) ==
  LET s0 == Logged(s, Entry("call", PowerKey(node_id, ""), "get_power_state",
                            B2N(power_states.kind # "raise")))
  IN IF power_states.kind = "raise"
     THEN Raised(s0, PowerKey(node_id, ""), "ClientError")
     ELSE LET s1 == power_try(Logged(s0, Entry("returned", PowerKey(node_id, ""),
                                               power_states, 0)),
                              node_id, power_states, "FAIL", tf, mf)
          IN IF s1.exc # "" THEN s1
             ELSE power_try(s1, node_id, power_states, "GOOD", tf, mf)

\* ------------------------------------------- check_cluster_status, else arm
\* The else arm without its inner else: login() is tried on every offline
\* tick, the alerting one included.
offline_body_always_login(s, tf, mf) ==
  LET s1 == Logged(s, Entry("eval", ConnKey, "unhealthy", B2N(s.off)))
      s2 == IF ~ s1.off
            THEN LET s3 == notify(s1, ConnKey, "ALERT", 0, "Qumulo Cluster offline",
                                  "nodeDownTrap", tf, mf)
                 IN IF s3.exc # "" THEN s3 ELSE [s3 EXCEPT !.off = TRUE]
            ELSE s1
  IN IF s2.exc # "" THEN s2 ELSE Logged(s2, Entry("call", ConnKey, "login", 0))

\* The else arm followed by check_drives, as if the drive check were not
\* inside the `if credentials` arm.
offline_body_checks_drives(s, tf, mf) ==
  LET s1 == Logged(s, Entry("eval", ConnKey, "unhealthy", B2N(s.off)))
      s2 == IF ~ s1.off
            THEN LET s3 == notify(s1, ConnKey, "ALERT", 0, "Qumulo Cluster offline",
                                  "nodeDownTrap", tf, mf)
                 IN IF s3.exc # "" THEN s3 ELSE [s3 EXCEPT !.off = TRUE]
            ELSE Logged(s1, Entry("call", ConnKey, "login", 0))
  IN IF s2.exc # "" THEN s2 ELSE check_drives_body(s2, {}, tf, mf)

\* else:  # we're offline   (lines 296-302)
offline_body(s, tf, mf) ==
  LET s1 == Logged(s, Entry("eval", ConnKey, "unhealthy", B2N(s.off)))
  IN IF ~ s1.off
     THEN LET s2 == notify(s1, ConnKey, "ALERT", 0, "Qumulo Cluster offline",
                           "nodeDownTrap", tf, mf)
          IN IF s2.exc # "" THEN s2 ELSE [s2 EXCEPT !.off = TRUE]
     ELSE Logged(s1, Entry("call", ConnKey, "login", 0))

\* -------------------------------------------------------- history helpers
Max(S) == CHOOSE x \in S : \A y \in S : y <= x

Positions(l, op, key) ==
  { i \in 1 .. Len(l) : l[i].op = op /\ KeyMatch(l[i].key, key) }

\* Whether the last op-entry for key in l says `what`; dflt when l has none.
LastIs(l, op, key, what, dflt) ==
  IF Positions(l, op, key) = {} THEN dflt
  ELSE l[Max(Positions(l, op, key))].what = what

\* The handler that ran last becomes history when the next one starts.
Fold ==
  /\ wasUnhealthy' = [k \in Keys |-> LastIs(log, "eval", k, "unhealthy", wasUnhealthy[k])]
  /\ wasAlert' = [k \in Keys |-> LastIs(log, "notify", k, "ALERT", wasAlert[k])]

\* ------------------------------------------------------------------- Init
Init ==
  /\ \E c \in Configs :
       /\ snmp_enabled = c.snmp
       /\ email_enabled = c.email
       /\ ipmi_enabled = c.ipmi
       /\ ipmi_servers = c.servers
  /\ credentials \in BOOLEAN
  /\ notified_offline = FALSE
  /\ notified_dead_drives = FALSE
  /\ notified_power_supply_failure =
       [n \in 0 .. (Len(ipmi_servers) - 1) |-> [l \in KnownLabels |-> FALSE]]
  /\ test_count = 0
  /\ pc = "sleep"
  /\ srv = 1
  /\ log = <<>>
  /\ tick = <<>>
  /\ wasUnhealthy = [k \in Keys |-> FALSE]
  /\ wasAlert = [k \in Keys |-> FALSE]
  /\ lock = "none"
  /\ value = 0
  /\ spc = "serve"
  /\ seen = 0
  /\ started = 0
  /\ cycles = 0

\* Writes back what one handler call did; an exception that left the
\* handler ends the thread.
Commit(s, handler, next_pc) ==
  /\ notified_offline' = s.off
  /\ notified_dead_drives' = s.dd
  /\ notified_power_supply_failure' = s.ps
  /\ log' = s.log
  /\ tick' = Append(tick, handler)
  /\ pc' = IF s.exc # "" THEN "dead" ELSE next_pc
  /\ cycles' = IF s.exc = "" /\ next_pc = "sleep" THEN cycles + 1 ELSE cycles
  /\ Fold

\* ---------------------------------------------------------------- actions
\* Worker.run driven by a timer that does not wait for the drive check of
\* the tick before.
run_overlapping ==
  /\ pc \in {"sleep", "drives"}
  /\ test_count < MaxTicks
  /\ test_count' = test_count + 1
  /\ started' = started + 1
  /\ Fold
  /\ log' = <<>>
  /\ tick' = <<>>
  /\ srv' = 1
  /\ pc' = IF ipmi_enabled /\ Len(ipmi_servers) > 0 THEN "power" ELSE "cluster"
  /\ UNCHANGED << cfgVars, credentials, notified_offline, notified_dead_drives,
                  notified_power_supply_failure, mibVars, cycles >>

\* Worker.run entering check_cluster_status at the credentials test, as if
\* the IPMI loop did not come first.
run_cluster_first ==
  /\ pc = "sleep"
  /\ test_count < MaxTicks
  /\ test_count' = test_count + 1
  /\ started' = started + 1
  /\ Fold
  /\ log' = <<>>
  /\ tick' = <<>>
  /\ srv' = 1
  /\ pc' = "cluster"
  /\ UNCHANGED << cfgVars, credentials, notified_offline, notified_dead_drives,
                  notified_power_supply_failure, mibVars, cycles >>

\* Worker.run, one iteration up to the call of check_cluster_status:
\* sleep, setTestCount(getTestCount() + 1), then the test of ipmi.enabled.
\* The two locked calls are taken as one step here; Worker_getTestCount
\* and the actions after it take them apart.
run ==
  /\ pc = "sleep"
  /\ test_count < MaxTicks
  /\ test_count' = test_count + 1
  /\ started' = started + 1
  /\ Fold
  /\ log' = <<>>
  /\ tick' = <<>>
  /\ srv' = 1
  /\ pc' = IF ipmi_enabled /\ Len(ipmi_servers) > 0 THEN "power" ELSE "cluster"
  /\ UNCHANGED << cfgVars, credentials, notified_offline, notified_dead_drives,
                  notified_power_supply_failure, mibVars, cycles >>

\* One iteration of `for ipmi_server in ipmi_servers: self.check_power(...)`.
check_power ==
  /\ pc = "power"
  /\ \E power_states \in PowerResults, tf \in 0 .. MaxFailAt, mf \in 0 .. MaxFailAt :
       Commit(check_power_body(Frame, IndexOf(ipmi_servers, ipmi_servers[srv]),
                               power_states, tf, mf),
              "check_power",
              IF srv < Len(ipmi_servers) THEN "power" ELSE "cluster")
  /\ srv' = IF srv < Len(ipmi_servers) THEN srv + 1 ELSE srv
  /\ UNCHANGED << cfgVars, credentials, test_count, mibVars, started >>

\* `if self.client.credentials is not None: self.check_nodes()`
check_nodes ==
  /\ pc = "cluster"
  /\ credentials
  /\ \E offline_nodes \in OfflineNodeSets, tf \in 0 .. MaxFailAt, mf \in 0 .. MaxFailAt :
       Commit(check_nodes_body(
                Logged(Frame, Entry("eval", ConnKey, "healthy", B2N(notified_offline))),
                offline_nodes, tf, mf),
              "check_nodes", "drives")
  /\ UNCHANGED << cfgVars, credentials, test_count, srv, mibVars, started >>

\* `self.check_drives()`, the last statement of the tick.
check_drives ==
  /\ pc = "drives"
  /\ \E dead_drives \in DeadDriveSets, tf \in 0 .. MaxFailAt, mf \in 0 .. MaxFailAt :
       Commit(check_drives_body(Frame, dead_drives, tf, mf), "check_drives", "sleep")
  /\ UNCHANGED << cfgVars, credentials, test_count, srv, mibVars, started >>

\* `else:  # we're offline`: alert once, afterwards call client.login(),
\* which may or may not obtain credentials.
check_offline ==
  /\ pc = "cluster"
  /\ ~ credentials
  /\ \E tf \in 0 .. MaxFailAt, mf \in 0 .. MaxFailAt :
       Commit(offline_body(Frame, tf, mf), "offline", "sleep")
  /\ IF notified_offline THEN credentials' \in BOOLEAN ELSE UNCHANGED credentials
  /\ UNCHANGED << cfgVars, test_count, srv, mibVars, started >>

\* The cluster becomes unreachable / the session is no longer authenticated.
SessionLost ==
  /\ pc # "dead"
  /\ credentials
  /\ credentials' = FALSE
  /\ UNCHANGED << cfgVars, notified_offline, notified_dead_drives,
                  notified_power_supply_failure, test_count, pc, srv, log, tick,
                  wasUnhealthy, wasAlert, mibVars, started, cycles >>

Next ==
  \/ run
  \/ check_power
  \/ check_nodes
  \/ check_drives
  \/ check_offline
  \/ SessionLost

Spec == Init /\ [][Next]_vars

\* ------------------------------------------- the counter, lock by lock
\* What the worker's steps on the counter leave alone.
statusVars == << cfgVars, credentials, notified_offline, notified_dead_drives,
                 notified_power_supply_failure, srv, cycles >>

\* `time.sleep(5)` returns; the worker is about to call mib.getTestCount().
Worker_sleep ==
  /\ pc = "sleep"
  /\ started < MaxTicks
  /\ pc' = "getTestCount"
  /\ UNCHANGED << statusVars, test_count, mibVars, started, log, tick,
                  wasUnhealthy, wasAlert >>

\* mib.getTestCount() called by the worker, the first operation of a tick:
\* `with self._lock:` is entered once no other thread holds the lock.
Worker_getTestCount ==
  /\ pc = "getTestCount"
  /\ lock = "none"
  /\ lock' = "worker"
  /\ pc' = "getTestCount_locked"
  /\ started' = started + 1
  /\ Fold
  /\ log' = <<>>
  /\ tick' = <<>>
  /\ UNCHANGED << statusVars, test_count, value, spc, seen >>

\* `return self._test_count` with the value never read: the worker goes on
\* with the value it has.
Worker_getTestCount_return_stale ==
  /\ pc = "getTestCount_locked"
  /\ lock' = "none"
  /\ pc' = "setTestCount"
  /\ UNCHANGED << statusVars, test_count, value, spc, seen, started, log, tick,
                  wasUnhealthy, wasAlert >>

\* `return self._test_count`; leaving the with block releases the lock.
Worker_getTestCount_return ==
  /\ pc = "getTestCount_locked"
  /\ value' = test_count
  /\ lock' = "none"
  /\ pc' = "setTestCount"
  /\ UNCHANGED << statusVars, test_count, spc, seen, started, log, tick,
                  wasUnhealthy, wasAlert >>

\* self._mib.setTestCount(<value> + 1) called: the with block is entered.
Worker_setTestCount ==
  /\ pc = "setTestCount"
  /\ lock = "none"
  /\ lock' = "worker"
  /\ pc' = "setTestCount_locked"
  /\ UNCHANGED << statusVars, test_count, value, spc, seen, started, log, tick,
                  wasUnhealthy, wasAlert >>

\* setTestCount(getTestCount()): the value is written back as it was read.
Worker_setTestCount_return_no_increment ==
  /\ pc = "setTestCount_locked"
  /\ test_count' = value
  /\ lock' = "none"
  /\ pc' = IF ipmi_enabled /\ Len(ipmi_servers) > 0 THEN "power" ELSE "cluster"
  /\ UNCHANGED << statusVars, value, spc, seen, started, log, tick,
                  wasUnhealthy, wasAlert >>

\* `self._test_count = value`, the lock is released, and run goes on to
\* check_cluster_status.
Worker_setTestCount_return ==
  /\ pc = "setTestCount_locked"
  /\ test_count' = value + 1
  /\ lock' = "none"
  /\ pc' = IF ipmi_enabled /\ Len(ipmi_servers) > 0 THEN "power" ELSE "cluster"
  /\ UNCHANGED << statusVars, value, spc, seen, started, log, tick,
                  wasUnhealthy, wasAlert >>

\* The valueFunc of testCount called without `with self._lock`.
Serve_getTestCount_unlocked ==
  /\ spc = "serve"
  /\ spc' = "getTestCount_locked"
  /\ UNCHANGED << statusVars, test_count, lock, value, seen, started, pc, log, tick,
                  wasUnhealthy, wasAlert >>

\* agent.serve_forever() answers a request for testCount: the MibObject
\* calls its valueFunc, mib.getTestCount, which enters the with block.
Serve_getTestCount ==
  /\ spc = "serve"
  /\ lock = "none"
  /\ lock' = "server"
  /\ spc' = "getTestCount_locked"
  /\ UNCHANGED << statusVars, test_count, value, seen, started, pc, log, tick,
                  wasUnhealthy, wasAlert >>

\* `return self._test_count` to the serving loop; the lock is released.
Serve_getTestCount_return ==
  /\ spc = "getTestCount_locked"
  /\ seen' = test_count
  /\ lock' = "none"
  /\ spc' = "serve"
  /\ UNCHANGED << statusVars, test_count, value, started, pc, log, tick,
                  wasUnhealthy, wasAlert >>

\* The program with IPMI disabled, the counter update taken lock by lock
\* and the serving loop reading the counter.
InitCounter == Init /\ ~ ipmi_enabled

NextCounter ==
  \/ Worker_sleep
  \/ Worker_getTestCount
  \/ Worker_getTestCount_return
  \/ Worker_setTestCount
  \/ Worker_setTestCount_return
  \/ Serve_getTestCount
  \/ Serve_getTestCount_return
  \/ check_nodes
  \/ check_drives
  \/ check_offline
  \/ SessionLost

SpecCounter == InitCounter /\ [][NextCounter]_vars

\* ------------------------------------------------ reading the handler log
Evals == { i \in 1 .. Len(log) : log[i].op = "eval" }

Notifies == { i \in 1 .. Len(log) : log[i].op = "notify" }

\* The observation of log[i]'s key that preceded evaluation i.
PrevUnhealthy(i) ==
  LET P == { j \in Positions(log, "eval", log[i].key) : j < i }
  IN IF P = {} THEN wasUnhealthy[log[i].key] ELSE log[Max(P)].what = "unhealthy"

\* Whether the last event for k before position i was an ALERT.
PrevAlert(i, k) ==
  LET P == { j \in Positions(log, "notify", k) : j < i }
  IN IF P = {} THEN wasAlert[k] ELSE log[Max(P)].what = "ALERT"

\* Evaluation i emitted an event of this kind for its key.
EmittedAt(i, kind) ==
  /\ i < Len(log)
  /\ log[i + 1].op = "notify"
  /\ log[i + 1].what = kind
  /\ log[i + 1].key = log[i].key

EmittedAny(i) == EmittedAt(i, "ALERT") \/ EmittedAt(i, "CLEAR")

C2_NoSpuriousClear ==
  /\ \A i \in Notifies : log[i].what = "CLEAR" => PrevAlert(i, log[i].key)
  /\ \A i \in Evals :
       log[i].what = "healthy" /\ ~ PrevAlert(i, log[i].key) => ~ EmittedAny(i)

\* ------------------------------------------------------------------ C3
\* The key of evaluation i has an ALERT of its own that no CLEAR has
\* followed.  The one clear event of notified_offline ("nodes back online")
\* clears a cluster-offline alert as well as a node alert.
Alerted(i) ==
  /\ PrevAlert(i, FlagKey(log[i].key))
  /\ log[i].key = ConnKey => ~ PrevAlert(i, NodesKey)
  /\ log[i].key = NodesKey => PrevAlert(i, NodesKey)

\* C3 (no transition dropped): a condition found unhealthy when its previous
\* observation was healthy (or there was none) emits its ALERT in that
\* handler call, and a condition found healthy after it was alerted emits
\* its CLEAR in that handler call.
C3_NoTransitionDropped ==
  \A i \in Evals :
    /\ log[i].what = "unhealthy" /\ ~ PrevUnhealthy(i) => EmittedAt(i, "ALERT")
    /\ log[i].what = "healthy" /\ Alerted(i)
         => \E j \in Notifies : /\ j > i
                                /\ log[j].what = "CLEAR"
                                /\ FlagKey(log[j].key) = FlagKey(log[i].key)

\* ------------------------------------------------------------------ C4
Last(q) == q[Len(q)]

\* The handler that ran last was the offline arm of check_cluster_status.
OfflineTick == tick # <<>> /\ Last(tick) = "offline"

Calls(name) == { i \in 1 .. Len(log) : log[i].op = "call" /\ log[i].what = name }

ReconnectTick ==
  /\ tick # <<>>
  /\ Last(tick) = "check_nodes"
  /\ wasUnhealthy[ConnKey]

\* C5 (connectivity scenario): the cluster-offline ALERT is emitted on the
\* first unauthenticated tick and on no later one; the reconnect tick emits
\* the CLEAR whatever the offline-node set is, and nodes found offline on
\* the reconnect tick raise the node ALERT on that tick.
C5_ConnectivityScenario ==
  /\ OfflineTick =>
       \A i \in Evals :
         IF wasUnhealthy[ConnKey] THEN ~ EmittedAny(i) ELSE EmittedAt(i, "ALERT")
  /\ ReconnectTick =>
       /\ \E j \in Notifies : log[j].what = "CLEAR" /\ FlagKey(log[j].key) = OfflineKey
       /\ \A i \in Evals :
            log[i].key = NodesKey /\ log[i].what = "unhealthy" => EmittedAt(i, "ALERT")

\* ------------------------------------------------------------------ C6
\* C6 as claimed: on every tick on which connectivity is ALERTING after its
\* evaluation, the alerting tick included, login() is called.
C6_LoginOnEveryOfflineTick ==
  OfflineTick => Calls("login") # {}

\* C6 as amended: on a tick whose connectivity test finds no credentials,
\* login() is called exactly when notified_offline was already set at the
\* test, that is on every such tick except the one that raises the
\* cluster-offline ALERT; a tick that follows an unauthenticated tick
\* always calls it.
C6_LoginOnSteadyOfflineTicks ==
  OfflineTick =>
    /\ Calls("login") # {} <=> log[1].n = 1
    /\ Calls("login") # {} <=> Notifies = {}
    /\ wasUnhealthy[ConnKey] => Calls("login") # {}
    /\ Cardinality(Calls("login")) <= 1

\* A second unauthenticated tick in a row: no event, one login() call.
C6_Witness ==
  /\ OfflineTick
  /\ wasUnhealthy[ConnKey]
  /\ wasAlert[ConnKey]
  /\ Calls("login") # {}

\* ------------------------------------------------------------------ C7
Sends(i, op) == { j \in 1 .. Len(log) : j > i /\ j <= i + 2 /\ log[j].op = op }

\* C7 (dispatch isolation): with both channels enabled, every event that
\* is dispatched has its trap send and its email send invoked, whether or
\* not the other send fails.
C7_BothChannelsInvoked ==
  snmp_enabled /\ email_enabled =>
    \A i \in Notifies : Sends(i, "sendTrap") # {} /\ Sends(i, "send_email") # {}

\* ------------------------------------------------------------------ C8
FailedSends ==
  { i \in 1 .. Len(log) : log[i].op \in {"sendTrap", "send_email"} /\ log[i].n = 0 }

\* C8: a failing trap or mail send never stops the poll loop: the worker
\* thread is still running after a handler in which a send failed (and in
\* which nothing else went wrong).
C8_SendFailureKeepsLoopRunning ==
  /\ FailedSends # {}
  /\ \A i \in 1 .. Len(log) : log[i].op # "raise"
  => pc # "dead"

\* ------------------------------------------------------------------ C9
PowerTick == tick # <<>> /\ Last(tick) = "check_power"

\* The power-state query of the endpoint just handled failed: the client
\* raised, or returned nothing, or returned data check_power cannot read.
QueryFailed ==
  /\ PowerTick
  /\ \E i \in 1 .. Len(log) :
       \/ log[i].op = "warn"
       \/ log[i].op = "raise" /\ log[i].what \in {"ClientError", "KeyError"}

\* C9 (IPMI partial failure): a failed power-state query of one endpoint is
\* caught, and the tick goes on with the next endpoint or with the cluster
\* checks.
C9_QueryFailureIsCaught ==
  QueryFailed => pc \in {"power", "cluster"}

\* ------------------------------------------------------------------ C10
\* Node 0, the first endpoint of the tick, was just handled and returned
\* these lists.
Node0Returned(f, g) ==
  /\ PowerTick
  /\ Len(tick) = 1
  /\ Len(log) >= 2
  /\ log[1].key = PowerKey(0, "")
  /\ log[2].op = "returned"
  /\ log[2].what = PowerDict(f, g)

EventsOfHandler == { << log[i].key, log[i].what >> : i \in Notifies }

\* C10 (per-entity independence): a check_power call evaluates and emits
\* only for the supplies of its own node; node 0 reporting PS1 = FAIL,
\* PS2 = GOOD from the clear state emits ALERT(0, PS1), and reporting
\* PS1 = GOOD, PS2 = FAIL next emits both CLEAR(0, PS1) and ALERT(0, PS2).
C10_PerEntityIndependence ==
  /\ PowerTick =>
       \A i \in Evals \cup Notifies :
         log[i].key[1] = "power" /\ log[i].key[2] = log[1].key[2]
  /\ ( /\ Node0Returned(<<"PS1">>, <<"PS2">>)
       /\ ~ wasAlert[PowerKey(0, "PS1")]
       /\ ~ wasAlert[PowerKey(0, "PS2")] )
       => EventsOfHandler = { << PowerKey(0, "PS1"), "ALERT" >> }
  /\ ( /\ Node0Returned(<<"PS2">>, <<"PS1">>)
       /\ wasAlert[PowerKey(0, "PS1")]
       /\ ~ wasAlert[PowerKey(0, "PS2")] )
       => EventsOfHandler = { << PowerKey(0, "PS2"), "ALERT" >>,
                              << PowerKey(0, "PS1"), "CLEAR" >> }

\* ------------------------------------------------------------------ C11
\* The collection the query of the aggregate k returned to this handler.
ReturnedFor(k) ==
  log[Max({ j \in 1 .. Len(log) : log[j].op = "returned" /\ log[j].key = k })].what

\* The aggregate k is edge-triggered in the handler that just ran.
AggregateEdge(k) ==
  \A i \in Evals :
    log[i].key = k =>
      /\ log[i].what = (IF ReturnedFor(k) = {} THEN "healthy" ELSE "unhealthy")
      /\ EmittedAt(i, "ALERT") <=> (ReturnedFor(k) # {} /\ ~ wasUnhealthy[k])
      /\ EmittedAt(i, "ALERT") =>
           /\ log[i + 1].n.count = Cardinality(ReturnedFor(k))
           /\ log[i + 1].n.members = ReturnedFor(k)
      /\ EmittedAt(i, "CLEAR") <=> (ReturnedFor(k) = {} /\ wasUnhealthy[k])
      /\ Notifies \subseteq {i + 1}

\* C11 (aggregate mode): on a tick on which the cluster is connected and
\* was connected at the previous observation (or never observed before),
\* check_nodes emits the node ALERT exactly when the offline-node count is
\* above 0 and was 0 (or unobserved) before, the body giving the count and
\* the members just fetched; it emits nothing while the count stays above
\* 0, whatever the members are, and emits the CLEAR when the count is back
\* at 0.  check_drives does the same for the dead drives, on every tick it
\* runs.
C11_AggregateEdgeTriggered ==
  /\ (tick # <<>> /\ Last(tick) = "check_nodes" /\ ~ wasUnhealthy[ConnKey])
       => AggregateEdge(NodesKey)
  /\ (tick # <<>> /\ Last(tick) = "check_drives") => AggregateEdge(DrivesKey)

\* Third tick in a row with the cluster connected: the offline-node set,
\* non-empty and alerted before, is empty again and the CLEAR is emitted.
C11_Witness ==
  /\ test_count = 3
  /\ tick # <<>> /\ Last(tick) = "check_nodes"
  /\ ~ wasUnhealthy[ConnKey]
  /\ wasUnhealthy[NodesKey]
  /\ wasAlert[NodesKey]
  /\ ReturnedFor(NodesKey) = {}
  /\ \E i \in Evals : log[i].key = NodesKey /\ EmittedAt(i, "CLEAR")

PowerCalls == IF ipmi_enabled THEN Len(ipmi_servers) ELSE 0

InCounterUpdate ==
  pc \in {"getTestCount_locked", "setTestCount", "setTestCount_locked"}

\* C13 as claimed: the increment of a tick comes after that tick's health
\* checks, so the counter, and any value the serving loop has read from
\* it, never exceeds the number of check_cluster_status calls that have
\* returned.
C13_IncrementAfterChecks ==
  /\ test_count <= cycles
  /\ seen <= cycles

\* C13 as amended: the counter is incremented by exactly one per tick, and
\* the increment is the first thing a tick does, before its health checks:
\* outside the update itself the counter equals the number of ticks begun,
\* and the number of completed check cycles is one less than that until
\* the tick's check_cluster_status has returned (for ever, if it raised).
\* A reader that has seen n knows that n ticks have begun and that n - 1
\* check cycles have completed.
C13_IncrementBeforeChecks ==
  /\ test_count = started - (IF InCounterUpdate THEN 1 ELSE 0)
  /\ cycles = started - (IF pc \in {"sleep", "getTestCount"} THEN 0 ELSE 1)
  /\ seen <= test_count
  /\ seen <= cycles + 1

\* The serving loop has read 2 while the second check cycle is still
\* running.
C13_Witness ==
  /\ seen = 2
  /\ cycles = 1
  /\ pc = "drives"

\* ------------------------------------------------------------------ C14
\* The worker is inside the with block of getTestCount or setTestCount.
WorkerInCS == pc \in {"getTestCount_locked", "setTestCount_locked"}

\* The serving loop is inside the with block of getTestCount.
ServeInCS == spc = "getTestCount_locked"

\* C14 (counter accessed under the lock): a thread is inside a with block
\* of the Mib object exactly while it holds the lock, so the worker and
\* the serving loop are never inside their critical sections together;
\* and every step that writes the counter, or reads it for the worker or
\* for the serving loop, is taken by a thread inside its critical section.
C14_CounterAccessUnderLock ==
  /\ [] ( /\ WorkerInCS <=> lock = "worker"
          /\ ServeInCS <=> lock = "server"
          /\ ~ (WorkerInCS /\ ServeInCS) )
  /\ [][ /\ test_count' # test_count => WorkerInCS /\ lock = "worker"
         /\ value' # value => WorkerInCS /\ lock = "worker" /\ value' = test_count
         /\ seen' # seen => ServeInCS /\ lock = "server" /\ seen' = test_count ]_vars

\* The serving loop holds the lock and is reading while the worker, its
\* read done, waits to enter setTestCount.
C14_Witness ==
  /\ ServeInCS
  /\ lock = "server"
  /\ pc = "setTestCount"
  /\ value = 1

\* ------------------------------------------------------------------ C15
\* The handlers of the current tick have all run.
TickComplete == tick # <<>> /\ Last(tick) \in {"check_drives", "offline"}

\* C15 (ticks strictly sequential): at most one tick is in progress; the
\* worker is at its sleep only when every tick begun has seen its
\* check_cluster_status return, with the last handler of the tick run; a
\* tick that has just begun finds all earlier ticks complete; and every
\* dispatch is made inside the handler that raised the event, its sends
\* made before the handler ends.
C15_TicksSequential ==
  /\ started - cycles \in {0, 1}
  /\ pc = "sleep" => started = cycles /\ (started > 0 => TickComplete)
  /\ pc \in {"power", "cluster", "drives"} => started = cycles + 1 /\ ~ TickComplete
  /\ (started > 0 /\ tick = <<>>) => cycles = started - 1 /\ pc \in {"power", "cluster"}
  /\ \A i \in Notifies :
       /\ snmp_enabled => i < Len(log) /\ log[i + 1].op = "sendTrap"
       /\ (~ snmp_enabled /\ email_enabled) => i < Len(log) /\ log[i + 1].op = "send_email"

\* The second tick is under way, its node check has dispatched an event,
\* and the first tick is complete.
C15_Witness ==
  /\ started = 2
  /\ cycles = 1
  /\ pc = "drives"
  /\ Notifies # {}

\* ------------------------------------------------------------------ C16
\* check_power ran last and its query returned a dictionary.
PowerReturned ==
  /\ PowerTick
  /\ Len(log) >= 2
  /\ log[2].op = "returned"
  /\ log[2].what.kind = "dict"

\* C16 (a key starts CLEAR when first observed): a supply label that the
\* worker has never seen, reported under 'FAIL', gets its ALERT, and no
\* KeyError is raised over it.
C16_NewLabelStartsClear ==
  (PowerReturned /\ "FAIL" \in log[2].what.keys) =>
    \A j \in 1 .. Len(log[2].what.FAIL) :
      log[2].what.FAIL[j] \notin KnownLabels =>
        /\ \E i \in Notifies :
             /\ log[i].key = PowerKey(log[1].key[2], log[2].what.FAIL[j])
             /\ log[i].what = "ALERT"
        /\ \A i \in 1 .. Len(log) : ~ (log[i].op = "raise" /\ log[i].what = "KeyError")

\* ------------------------------------------------------------------ C17
\* C17 (node_id is the configured position): the check_power call made for
\* the i-th entry of ipmi_servers (i counted from 0) queries, evaluates
\* and records under node_id = i, so that two positions never share the
\* state of a supply.
C17_NodeIdIsPosition ==
  PowerTick =>
    \A i \in 1 .. Len(log) : log[i].key = PowerKey(Len(tick) - 1, log[i].key[3])

\* ------------------------------------------------------------------ C18
\* The check_power call that ran last got nothing it could use: the query
\* raised, or returned None, or returned a dictionary without 'FAIL'.
NoUsableData ==
  /\ PowerTick
  /\ \/ log[1].n = 0
     \/ /\ Len(log) >= 2
        /\ log[2].op = "returned"
        /\ log[2].what.kind = "none" \/ "FAIL" \notin log[2].what.keys

\* What check_power does for a supply whose flag is set when it is
\* evaluated: reported failed it emits nothing, reported good it emits its
\* CLEAR, once.
AlertingSupplyHandled ==
  \A i \in Evals :
    log[i].n = 1 =>
      /\ log[i].what = "unhealthy" => ~ EmittedAny(i)
      /\ log[i].what = "healthy" =>
           /\ EmittedAt(i, "CLEAR")
           /\ Cardinality({ j \in Notifies : log[j].key = log[i].key
                                              /\ log[j].what = "CLEAR" }) = 1

\* C18 (a query without usable data changes nothing): a check_power call
\* whose query gives no usable data evaluates no supply, emits no event and
\* leaves every flag of its node as it was, that is set exactly for the
\* supplies whose last event was an ALERT; so a call that does get data
\* finds the flags of before, and a supply whose flag is set emits nothing
\* when reported failed and exactly one CLEAR when reported good.
C18_NoDataLeavesStateUnchanged ==
  /\ NoUsableData =>
       /\ Notifies = {}
       /\ Evals = {}
       /\ \A l \in KnownLabels :
            notified_power_supply_failure[log[1].key[2]][l]
              = wasAlert[PowerKey(log[1].key[2], l)]
  /\ PowerTick => AlertingSupplyHandled

\* A query of node 0 returned None on a tick after the one that alerted
\* PS1 of node 0: nothing is emitted and the flag is still set.
C18_Witness ==
  /\ PowerTick
  /\ Len(tick) = 1
  /\ log[1].key = PowerKey(0, "")
  /\ \E i \in 1 .. Len(log) : log[i].op = "warn"
  /\ wasAlert[PowerKey(0, "PS1")]
  /\ notified_power_supply_failure[0]["PS1"]
  /\ Notifies = {}

\* ------------------------------------------------------------------ C19
\* C19 (at most one event per key): whatever the query returned, a handler
\* call, and so a tick, emits at most one event for any one entity key.
C19_AtMostOneEventPerKey ==
  \A i \in Notifies : \A j \in Notifies : log[i].key = log[j].key => i = j

\* ------------------------------------------------------------------ C20
\* C20 as claimed: at every moment the counter equals the number of ticks
\* the poll loop has started, and no served value is ahead of it.
C20_ValueEqualsTicksStarted ==
  /\ test_count = started
  /\ seen <= started

\* C20 as amended: the counter never decreases and neither do the values
\* served; no increment is lost: the value the worker holds between its
\* read and its write is still the counter's value when it writes, so each
\* write adds exactly one and makes the counter equal to the number of
\* ticks started; from the start of a tick, which is its call of
\* getTestCount, until that write the counter is one less than the number
\* of ticks started, and a serving read made in between returns that older
\* value.
C20_NoLostIncrement ==
  /\ [] ( /\ test_count = started - (IF InCounterUpdate THEN 1 ELSE 0)
          /\ pc \in {"setTestCount", "setTestCount_locked"} => value = test_count
          /\ seen <= test_count )
  /\ [][ /\ test_count' >= test_count
         /\ seen' >= seen
         /\ test_count' # test_count =>
              /\ test_count' = test_count + 1
              /\ test_count' = started ]_vars

\* The third tick has started and the worker has read 2; before it writes
\* 3 the serving loop, which served 1 last, is reading the counter.
C20_Witness ==
  /\ started = 3
  /\ test_count = 2
  /\ pc = "setTestCount"
  /\ ServeInCS
  /\ seen = 1

====
